---------------------------- MODULE Spec2Model ----------------------------
(***************************************************************************)
(* A state-machine model of SmartAnalyze.py: the two run orchestrators     *)
(* (SmartAnalyzeTransient, SmartAnalyzeStatic), the static protocol        *)
(* planner and the recursive escalation controller RecursiveAnalyze,       *)
(* driven against a nondeterministic OpenSees solver.                      *)
(*                                                                         *)
(* Numbers.  Step lengths are Python floats; the model computes with exact *)
(* rationals [n |-> numerator, d |-> denominator > 0] in lowest terms, in  *)
(* units of 1.0e-6 (so the default minStep 1.0e-6 is the rational 1).      *)
(* Tolerances are only ever compared for equality and are integers in the  *)
(* same unit (testTol 1.0e-6 is 1, looseTestTolTo 1.0 is 1000000).         *)
(*                                                                         *)
(* Recursion.  RecursiveAnalyze is recursive; the model keeps its call     *)
(* stack explicitly.  A frame holds the parameters of one invocation and   *)
(* the place it has reached (pc).                                          *)
(*                                                                         *)
(* Specifications.  Spec: both entry points on well-formed inputs.         *)
(* FairSpec: Spec with the fairness of a sequential program.  PlanSpec:    *)
(* the planner of SmartAnalyzeStatic leg by leg.  ConvergingSpec: Transient *)
(* runs against a solver that always converges.  BisectSpec: one bisection *)
(* of any step.  EdgeSpec: the entry points on inputs the documentation    *)
(* rules out or does not mention (initialStep set by the user, no targets, *)
(* a maxStep that is not positive, malformed controls, unknown algorithm   *)
(* types), where exceptions leave the entry point in phase "error".        *)
(*                                                                         *)
(* Left out: console output, the tqdm progress bar, current['counter'],    *)
(* current['startTime'], testType / testPrintFlag / node / dof (opaque     *)
(* values passed through to the solver unchanged).                         *)
(***************************************************************************)
EXTENDS Integers, Sequences, FiniteSets, TLC

VARIABLES
    mode,      \* which entry point was called: "Transient" or "Static"
    args,      \* the arguments of the call
    control,   \* the control dict (defaults updated by ud)
    phase,     \* position of the entry point: "start", "loop", "success", "failed";
               \* "error": left by an exception; "plan": in a planner loop that has not ended
    current,   \* the current dict: algoIndex, testIterTimes, testTol, step, progress, segs
    segs,      \* Static: the planned list of segments
    idx,       \* number of loop iterations of the orchestrator started so far
    stack,     \* call stack of RecursiveAnalyze, outermost invocation first
    ret,       \* <<>>, or <<r>>: the value an invocation has just returned to its caller
    solver,    \* what is in force on the solver: algorithm code, test, integrator step
    calls,     \* the solver calls issued since the synchronisation of the last attempt
    applied    \* sum of the increments the solver has converged on (committed)

vars == <<mode, args, control, phase, current, segs, idx, stack, ret, solver, calls, applied>>

---------------------------------------------------------------------------
(* Bounds of the model *)

\* largest dt / maxStep / target magnitude drawn, in units of 1.0e-6
MaxLen == 4
\* largest npts drawn
MaxNpts == 2
\* planner inputs: largest target magnitude, longest protocol, largest maxStep in halves
MaxTarget == 2
MaxLegs == 3
MaxHalfSteps == 4
\* most iterations of one while loop of the planner the model follows
MaxSegs == 12
\* largest npts drawn for a run on which the solver always converges
MaxPoints == 5
\* largest magnitude, in tenths, of a step drawn for one bisection
MaxTenths == 12
\* largest number of nested RecursiveAnalyze invocations the model follows
MaxDepth == 24

---------------------------------------------------------------------------
(* Exact rational arithmetic standing for the float operations *)

Abs(x) == IF x < 0 THEN -x ELSE x

\* greatest common divisor (Euclid); a function, so that its arguments are values
GCD[a \in Nat, b \in Nat] == IF b = 0 THEN a ELSE GCD[b, a % b]

\* the rational n/d (d > 0) in lowest terms
Reduced[n \in Int, d \in Nat] ==
    [n |-> n \div GCD[Abs(n), d], d |-> d \div GCD[Abs(n), d]]

Rat(n, d) == Reduced[n, d]

RInt(k) == [n |-> k, d |-> 1]
RZero == RInt(0)
RAdd(a, b) == Rat(a.n * b.d + b.n * a.d, a.d * b.d)
RNeg(a) == [n |-> -a.n, d |-> a.d]
RSub(a, b) == RAdd(a, RNeg(b))
RMul(a, b) == Rat(a.n * b.n, a.d * b.d)
RAbs(a) == [n |-> Abs(a.n), d |-> a.d]
RLt(a, b) == a.n * b.d < b.n * a.d
RLe(a, b) == a.n * b.d <= b.n * a.d
RGt(a, b) == RLt(b, a)
RGe(a, b) == RLe(b, a)

Last(s) == s[Len(s)]
Front(s) == SubSeq(s, 1, Len(s) - 1)

RECURSIVE RSum(_)
RSum(s) == IF s = <<>> THEN RZero ELSE RAdd(RSum(Front(s)), Last(s))

---------------------------------------------------------------------------
(* Default control parameters *)

DefaultTestTol == 1
DefaultTestIterTimes == 7
DefaultTestIterTimesMore == 50
DefaultLooseTestTolTo == 1000000
DefaultAlgoTypes == <<40>>
DefaultRelaxation == Rat(1, 2)
DefaultMinStep == RInt(1)

Defaults(analysis, initialStep) ==
    [ analysis          |-> analysis,
      testTol           |-> DefaultTestTol,
      testIterTimes     |-> DefaultTestIterTimes,
      tryAddTestTimes   |-> FALSE,
      testIterTimesMore |-> DefaultTestIterTimesMore,
      tryLooseTestTol   |-> FALSE,
      looseTestTolTo    |-> DefaultLooseTestTolTo,
      tryAlterAlgoTypes |-> FALSE,
      algoTypes         |-> DefaultAlgoTypes,
      initialStep       |-> initialStep,
      relaxation        |-> DefaultRelaxation,
      minStep           |-> DefaultMinStep ]

\* control.update(userControl)
Update(c, ud) ==
    [k \in (DOMAIN c) \cup (DOMAIN ud) |-> IF k \in DOMAIN ud THEN ud[k] ELSE c[k]]

\* ud = None (Transient) / ud = '' (Static): no user control
NoUd == [k \in {} |-> 0]

\* the algorithm codes for which setAlgorithm calls ops.algorithm
\* (case90, the user-defined algorithm, is a pass)
OpsAlgorithmCodes ==
    {0, 1, 2, 10, 11, 12, 20, 21, 22, 23, 30, 31, 40, 41, 42, 43, 44, 45,
     50, 51, 52, 53, 60, 70, 80}

\* the keys of the switch table of setAlgorithm
AlgorithmCatalog == OpsAlgorithmCodes \cup {90}

\* setAlgorithm(algotype): the algorithm in force afterwards
SetAlgorithm(algotype, inForce) ==
    IF algotype \in OpsAlgorithmCodes THEN algotype ELSE inForce

---------------------------------------------------------------------------
(* Inputs drawn *)

Relaxations == {Rat(1, 2), Rat(1, 4), Rat(3, 4)}

\* the user controls drawn: none; every setting of the three try- flags with
\* each relaxation and two algorithm types; a list of one algorithm type with
\* tryAlterAlgoTypes set; looseTestTolTo equal to testTol with tryLooseTestTol set
UserControls ==
    {NoUd} \cup
    [ tryAddTestTimes   : BOOLEAN,
      tryLooseTestTol   : BOOLEAN,
      tryAlterAlgoTypes : BOOLEAN,
      algoTypes         : {<<20, 30>>},
      relaxation        : Relaxations,
      looseTestTolTo    : {DefaultLooseTestTolTo} ] \cup
    [ tryAddTestTimes   : BOOLEAN,
      tryLooseTestTol   : BOOLEAN,
      tryAlterAlgoTypes : {TRUE},
      algoTypes         : {<<40>>},
      relaxation        : {DefaultRelaxation},
      looseTestTolTo    : {DefaultLooseTestTolTo} ] \cup
    [ tryAddTestTimes   : BOOLEAN,
      tryLooseTestTol   : {TRUE},
      tryAlterAlgoTypes : BOOLEAN,
      algoTypes         : {<<20, 30>>},
      relaxation        : {DefaultRelaxation},
      looseTestTolTo    : {DefaultTestTol} ]

Lengths == {RInt(k) : k \in 1..MaxLen}

TransientArgs ==
    [dt : Lengths, npts : 0..MaxNpts, ud : UserControls]

TargetLists ==
    {<<RInt(MaxLen)>>, <<RInt(1), RInt(-1)>>, <<RInt(2), RInt(2), RInt(-1)>>}

StaticArgs ==
    [maxStep : {RInt(2), RInt(MaxLen)}, targets : TargetLists, ud : UserControls]

\* inputs of the planner alone: every protocol of up to MaxLegs integer
\* targets whose first is positive, the protocol of the README, and maxStep
\* in halves
ReadmeProtocol == <<RInt(1), RInt(-1), RInt(1), RInt(-1), RInt(0)>>

Protocols ==
    {ReadmeProtocol} \cup
    UNION {{t \in [1..n -> {RInt(k) : k \in -MaxTarget..MaxTarget}] : RGt(t[1], RZero)}
              : n \in 1..MaxLegs}

PlanArgs ==
    [maxStep : {Rat(h, 2) : h \in 1..MaxHalfSteps}, targets : Protocols, ud : {NoUd}]

\* Inputs at the edges of what the entry points accept.  User controls that
\* set initialStep:
StepOverrides ==
    [ initialStep       : {RInt(1), RInt(3)},
      tryAddTestTimes   : BOOLEAN,
      tryLooseTestTol   : BOOLEAN,
      tryAlterAlgoTypes : BOOLEAN,
      algoTypes         : {<<20, 30>>} ]

\* user controls the documentation rules out: no algorithm type, a
\* relaxation that is not between 0 and 1
Malformed ==
    [ algoTypes         : {<<>>},
      tryAlterAlgoTypes : BOOLEAN ] \cup
    [ relaxation        : {RZero, RInt(1)},
      tryAddTestTimes   : BOOLEAN,
      tryLooseTestTol   : BOOLEAN ]

\* a minStep that is not positive
NoFloor == [minStep : {RZero, RInt(-1)}]

\* algorithm types that setAlgorithm does not know
BadAlgorithms ==
    [ algoTypes         : {<<99>>, <<40, 99>>},
      tryAlterAlgoTypes : {TRUE},
      tryAddTestTimes   : BOOLEAN ]

\* the user-defined algorithm type of the README's table
UserAlgorithms ==
    [ algoTypes         : {<<90>>, <<40, 90>>},
      tryAlterAlgoTypes : {TRUE},
      tryAddTestTimes   : BOOLEAN ]

EdgeControls == StepOverrides \cup Malformed \cup BadAlgorithms \cup UserAlgorithms

\* with a minStep that is not positive no step is too small and a solver
\* that keeps failing is followed into ever deeper recursion: such a control
\* is drawn for runs of no point only
EdgeTransientArgs ==
    [dt : {RInt(2)}, npts : 0..MaxNpts, ud : EdgeControls] \cup
    [dt : {RInt(2)}, npts : {0}, ud : NoFloor]

\* Static runs with a maxStep that is not positive, and with no targets
EdgeStaticArgs ==
    [ maxStep : {RZero, RInt(-1)},
      targets : {<<RInt(2)>>, <<RInt(1), RInt(-1)>>},
      ud      : {NoUd} \cup StepOverrides ] \cup
    [ maxStep : {RInt(2)},
      targets : {<<>>},
      ud      : {NoUd} \cup StepOverrides ] \cup
    [ maxStep : {RInt(2)},
      targets : {<<RInt(2), RInt(-1)>>},
      ud      : Malformed \cup BadAlgorithms \cup UserAlgorithms ]

---------------------------------------------------------------------------
(* Static protocol planner *)

\* the segments of one leg
RECURSIVE PositiveLeg(_, _, _)
PositiveLeg(section, maxStep, j) ==
    LET rest == RSub(section, RMul(RInt(j), maxStep))
    IN  IF RGt(rest, maxStep)
        THEN <<maxStep>> \o PositiveLeg(section, maxStep, j + 1)
        ELSE <<rest>>

RECURSIVE NegativeLeg(_, _, _)
NegativeLeg(section, maxStep, j) ==
    LET rest == RSub(RNeg(section), RMul(RInt(j), maxStep))
    IN  IF RGt(rest, maxStep)
        THEN <<RNeg(maxStep)>> \o NegativeLeg(section, maxStep, j + 1)
        ELSE <<RAdd(section, RMul(RInt(j), maxStep))>>

\* a planner without the negative branch
LegSegsAllPositive(targets, maxStep, i) ==
    PositiveLeg(IF i = 1 THEN targets[1] ELSE RSub(targets[i], targets[i - 1]), maxStep, 0)

Section(targets, i) ==
    IF i = 1 THEN targets[1] ELSE RSub(targets[i], targets[i - 1])

Positive(targets, i) ==
    IF i = 1 THEN TRUE ELSE RGe(Section(targets, i), RZero)

LegSegs(targets, maxStep, i) ==
    IF Positive(targets, i)
    THEN PositiveLeg(Section(targets, i), maxStep, 0)
    ELSE NegativeLeg(Section(targets, i), maxStep, 0)

RECURSIVE PlanSegs(_, _, _)
PlanSegs(targets, maxStep, n) ==
    IF n = 0 THEN <<>>
    ELSE PlanSegs(targets, maxStep, n - 1) \o LegSegs(targets, maxStep, n)

InitialStep(maxStep, targets) ==
    IF RGt(maxStep, targets[1]) THEN targets[1] ELSE maxStep

\* the number of iterations of the while loop of a leg, followed for at most
\* MaxSegs iterations (length is section in the positive branch, -section in
\* the negative one)
RECURSIVE LoopTimes(_, _, _)
LoopTimes(length, maxStep, j) ==
    IF j < MaxSegs /\ RGt(RSub(length, RMul(RInt(j), maxStep)), maxStep)
    THEN LoopTimes(length, maxStep, j + 1)
    ELSE j

\* the while loop of leg i ends within MaxSegs iterations
LegEnds(targets, maxStep, i) ==
    LoopTimes(IF Positive(targets, i) THEN Section(targets, i)
                                      ELSE RNeg(Section(targets, i)),
              maxStep, 0) < MaxSegs

PlannerEnds(targets, maxStep) ==
    \A i \in 1..Len(targets) : LegEnds(targets, maxStep, i)

\* segs after MaxSegs iterations of the first while loop that has not ended
PlanUnended(targets, maxStep) ==
    LET i == CHOOSE k \in 1..Len(targets) :
                 /\ ~LegEnds(targets, maxStep, k)
                 /\ \A m \in 1..(k - 1) : LegEnds(targets, maxStep, m)
    IN  PlanSegs(targets, maxStep, i - 1)
        \o [k \in 1..MaxSegs |-> IF Positive(targets, i) THEN maxStep ELSE RNeg(maxStep)]

---------------------------------------------------------------------------
(* Solver calls, as recorded in calls *)

TestCall(tol, iter) == [kind |-> "test", tol |-> tol, iter |-> iter]
AlgorithmCall(i, code) == [kind |-> "setAlgorithm", index |-> i, code |-> code]
IntegratorCall(step) == [kind |-> "integrator", step |-> step]
NormsCall(low) == [kind |-> "testNorms", low |-> low]
\* an attempt: the parameters of the invocation making it, what is in force
\* on the solver, the increment the solver attempts, and its outcome
AnalyzeCall(f, s, incr, ok) ==
    [ kind |-> "analyze", step |-> f.step, algoIndex |-> f.algoIndex,
      testIterTimes |-> f.testIterTimes, testTol |-> f.testTol,
      algo |-> s.algo, iter |-> s.iter, tol |-> s.tol, incr |-> incr, ok |-> ok ]

---------------------------------------------------------------------------
(* Initial state: the entry point has been called and has built control *)

\* nothing has been issued yet
NothingDone ==
    /\ phase = "start"
    /\ current = [algoIndex |-> 0, testIterTimes |-> 0, testTol |-> 0,
                  step |-> RZero, progress |-> 0, segs |-> 0]
    /\ segs = <<>>
    /\ idx = 0
    /\ stack = <<>>
    /\ ret = <<>>
    /\ solver = [algo |-> -1, iter |-> 0, tol |-> 0, incr |-> RZero]
    /\ calls = <<>>
    /\ applied = RZero

Init ==
    /\ \/ /\ mode = "Transient"
          /\ args \in TransientArgs
          /\ control = Update(Defaults("Transient", args.dt), args.ud)
       \/ /\ mode = "Static"
          /\ args \in StaticArgs
          /\ control = Update(Defaults("Static", InitialStep(args.maxStep, args.targets)), args.ud)
    /\ NothingDone

\* the entry point has been called with an input of the edges
EdgeInit ==
    \/ /\ mode = "Transient"
       /\ args \in EdgeTransientArgs
       /\ control = Update(Defaults("Transient", args.dt), args.ud)
       /\ NothingDone
    \/ /\ mode = "Static"
       /\ args \in EdgeStaticArgs
       \* with no targets the entry point raises before it builds control
       /\ control = IF args.targets = <<>>
                    THEN NoUd
                    ELSE Update(Defaults("Static", InitialStep(args.maxStep, args.targets)),
                                args.ud)
       /\ NothingDone

---------------------------------------------------------------------------
(* Run orchestrators *)

\* targets[0] of an empty list raises IndexError (line 270): the entry point
\* is left before control is built and before anything is issued
EntryRaises ==
    /\ phase' = "error"
    /\ UNCHANGED <<solver, calls, current, segs>>

\* control['algoTypes'][0] of an empty list raises IndexError: ops.test has
\* been called, setAlgorithm has not, and the entry point is left
BeginRaises ==
    /\ solver' = [solver EXCEPT !.tol = control.testTol, !.iter = control.testIterTimes]
    /\ calls' = <<TestCall(control.testTol, control.testIterTimes)>>
    /\ phase' = "error"
    /\ UNCHANGED <<current, segs>>

\* SmartAnalyzeTransient: initialize analyze commands and the current dict
TransientBegin ==
    /\ mode = "Transient" /\ phase = "start"
    /\ IF control.algoTypes = <<>>
       THEN BeginRaises
       ELSE /\ solver' = [solver EXCEPT
                              !.tol = control.testTol, !.iter = control.testIterTimes,
                              !.algo = SetAlgorithm(control.algoTypes[1], solver.algo)]
            /\ calls' = <<TestCall(control.testTol, control.testIterTimes),
                          AlgorithmCall(0, control.algoTypes[1])>>
            /\ current' = [algoIndex |-> 0, testIterTimes |-> control.testIterTimes,
                           testTol |-> control.testTol, step |-> RZero,
                           progress |-> 0, segs |-> args.npts]
            /\ phase' = "loop"
            /\ segs' = segs
    /\ UNCHANGED <<mode, args, control, idx, stack, ret, applied>>

\* SmartAnalyzeStatic: initialize analyze commands, the current dict and the
\* segments.  When a while loop of the planner is still running after MaxSegs
\* iterations the model leaves the entry point there (phase "plan"):
\* current['segs'] is not set and the run loop is not reached.
StaticBegin ==
    /\ mode = "Static" /\ phase = "start"
    /\ IF args.targets = <<>>
       THEN EntryRaises
       ELSE IF control.algoTypes = <<>>
       THEN BeginRaises
       ELSE LET initialStep == InitialStep(args.maxStep, args.targets)
                set == [algoIndex |-> 0, testIterTimes |-> control.testIterTimes,
                        testTol |-> control.testTol, step |-> initialStep,
                        progress |-> 0, segs |-> 0]
            IN  /\ solver' = [tol |-> control.testTol, iter |-> control.testIterTimes,
                              algo |-> SetAlgorithm(control.algoTypes[1], solver.algo),
                              incr |-> initialStep]
                /\ calls' = <<TestCall(control.testTol, control.testIterTimes),
                              AlgorithmCall(0, control.algoTypes[1]),
                              IntegratorCall(initialStep)>>
                /\ IF PlannerEnds(args.targets, args.maxStep)
                   THEN LET plan == PlanSegs(args.targets, args.maxStep, Len(args.targets))
                        IN  /\ current' = [set EXCEPT !.segs = Len(plan)]
                            /\ segs' = plan
                            /\ phase' = "loop"
                   ELSE /\ current' = set
                        /\ segs' = PlanUnended(args.targets, args.maxStep)
                        /\ phase' = "plan"
    /\ UNCHANGED <<mode, args, control, idx, stack, ret, applied>>

\* a new invocation RecursiveAnalyze(step, algoIndex, testIterTimes, testTol, ...)
Frame(step, algoIndex, testIterTimes, testTol) ==
    [ step |-> step, algoIndex |-> algoIndex, testIterTimes |-> testIterTimes,
      testTol |-> testTol, pc |-> "start", stepRest |-> RZero,
      applied0 |-> applied ]

\* a top-level call that keeps the tolerance in force
TopFrameKeepsTolerance(step) == Frame(step, 0, control.testIterTimes, current.testTol)

\* the top-level call of one loop iteration
TopFrame(step) == Frame(step, 0, control.testIterTimes, control.testTol)

\* for seg in range(1, npts+1): ok = RecursiveAnalyze(control['initialStep'], 0, ...)
TransientCall ==
    /\ mode = "Transient" /\ phase = "loop"
    /\ stack = <<>> /\ ret = <<>>
    /\ idx < args.npts
    /\ idx' = idx + 1
    /\ stack' = <<TopFrame(control.initialStep)>>
    /\ UNCHANGED <<mode, args, control, phase, current, segs, ret, solver, calls, applied>>

\* for seg in segs: ok = RecursiveAnalyze(seg, 0, ...)
StaticCall ==
    /\ mode = "Static" /\ phase = "loop"
    /\ stack = <<>> /\ ret = <<>>
    /\ idx < Len(segs)
    /\ idx' = idx + 1
    /\ stack' = <<TopFrame(segs[idx + 1])>>
    /\ UNCHANGED <<mode, args, control, phase, current, segs, ret, solver, calls, applied>>

\* an orchestrator that goes on after a failed segment
AbortsNever(ok) == FALSE

\* if ok < 0: report failure and return
Aborts(ok) == ok < 0

\* the orchestrator receives the result of a top-level call
TransientResult ==
    /\ mode = "Transient" /\ phase = "loop"
    /\ stack = <<>> /\ ret # <<>>
    /\ IF Aborts(ret[1].ok)
       THEN phase' = "failed" /\ UNCHANGED current
       ELSE phase' = phase /\ current' = [current EXCEPT !.progress = idx]
    /\ ret' = <<>>
    /\ UNCHANGED <<mode, args, control, segs, idx, stack, solver, calls, applied>>

StaticResult ==
    /\ mode = "Static" /\ phase = "loop"
    /\ stack = <<>> /\ ret # <<>>
    /\ IF Aborts(ret[1].ok)
       THEN phase' = "failed" /\ UNCHANGED current
       ELSE phase' = phase /\ current' = [current EXCEPT !.progress = @ + 1]
    /\ ret' = <<>>
    /\ UNCHANGED <<mode, args, control, segs, idx, stack, solver, calls, applied>>

\* the loop is exhausted: the analysis is done
TransientFinish ==
    /\ mode = "Transient" /\ phase = "loop"
    /\ stack = <<>> /\ ret = <<>>
    /\ idx = args.npts
    /\ phase' = "success"
    /\ UNCHANGED <<mode, args, control, current, segs, idx, stack, ret, solver, calls, applied>>

StaticFinish ==
    /\ mode = "Static" /\ phase = "loop"
    /\ stack = <<>> /\ ret = <<>>
    /\ idx = Len(segs)
    /\ phase' = "success"
    /\ UNCHANGED <<mode, args, control, current, segs, idx, stack, ret, solver, calls, applied>>

---------------------------------------------------------------------------
(* RecursiveAnalyze *)

Top == stack[Len(stack)]
Returned(ok, f) == <<[ok |-> ok, frame |-> f]>>

\* a synchronisation that sets the algorithm again on every invocation
NeedAlgorithmAlways(f) == TRUE

\* switch algorithm
NeedAlgorithm(f) == f.algoIndex # current.algoIndex

\* a synchronisation that sets the test again on every invocation
NeedTestAlways(f) == TRUE

\* change number of tests and tolerance
NeedTest(f) ==
    f.testIterTimes # current.testIterTimes \/ f.testTol # current.testTol

\* change step length
NeedStep(f) == control.analysis = "Static" /\ current.step # f.step

\* the solver calls of the synchronisation, in the order issued
SyncCalls(f) ==
    (IF NeedAlgorithm(f)
     THEN <<AlgorithmCall(f.algoIndex, control.algoTypes[f.algoIndex + 1])>>
     ELSE <<>>)
    \o (IF NeedTest(f) THEN <<TestCall(f.testTol, f.testIterTimes)>> ELSE <<>>)
    \o (IF NeedStep(f) THEN <<IntegratorCall(f.step)>> ELSE <<>>)

\* what is in force on the solver after the synchronisation
SyncSolver(f) ==
    [ algo |-> IF NeedAlgorithm(f)
               THEN SetAlgorithm(control.algoTypes[f.algoIndex + 1], solver.algo)
               ELSE solver.algo,
      tol  |-> IF NeedTest(f) THEN f.testTol ELSE solver.tol,
      iter |-> IF NeedTest(f) THEN f.testIterTimes ELSE solver.iter,
      incr |-> IF NeedStep(f) THEN f.step ELSE solver.incr ]

\* the current dict after the synchronisation
SyncCurrent(f) ==
    [current EXCEPT
        !.algoIndex = IF NeedAlgorithm(f) THEN f.algoIndex ELSE @,
        !.testIterTimes = IF f.testIterTimes # @ THEN f.testIterTimes ELSE @,
        !.testTol = IF f.testTol # @ THEN f.testTol ELSE @,
        !.step = IF NeedStep(f) THEN f.step ELSE @]

\* trial analyze once: ops.analyze(1) advances by the step of the integrator,
\* ops.analyze(1, step) by step
Increment(f, s) == IF control.analysis = "Static" THEN s.incr ELSE f.step

\* lines 397-438: synchronise the solver, analyze once, return 0 if converged
Attempt ==
    /\ stack # <<>> /\ ret = <<>> /\ Top.pc = "start"
    /\ \E ok \in BOOLEAN :
         LET f == Top
             s == SyncSolver(f)
             incr == Increment(f, s)
         IN  /\ solver' = s
             /\ current' = SyncCurrent(f)
             /\ calls' = SyncCalls(f) \o <<AnalyzeCall(f, s, incr, ok)>>
             /\ IF ok
                THEN /\ applied' = RAdd(applied, incr)
                     /\ stack' = Front(stack)
                     /\ ret' = Returned(0, f)
                ELSE /\ applied' = applied
                     /\ stack' = [stack EXCEPT ![Len(stack)].pc = "failed"]
                     /\ ret' = ret
    /\ UNCHANGED <<mode, args, control, phase, segs, idx>>

\* Add test iteration times?
CanAddTestTimes(f) ==
    control.tryAddTestTimes /\ f.testIterTimes # control.testIterTimesMore

\* Change algorithm?
CanAlterAlgo(f) ==
    control.tryAlterAlgoTypes /\ f.algoIndex + 1 < Len(control.algoTypes)

\* Is the step length too small?
TooSmall(step) == RLt(RAbs(step), RMul(RInt(2), control.minStep))

\* a floor that looses the tolerance again under the loosened tolerance
CanLoosenAgain == control.tryLooseTestTol

\* a floor that never looses the tolerance
CanLoosenNever == FALSE

\* a floor that looses the tolerance whatever tryLooseTestTol says
CanLoosenUnguarded == current.testTol # control.looseTestTolTo

\* Loose the test tolerance?
CanLoosen == control.tryLooseTestTol /\ current.testTol # control.looseTestTolTo

\* a first part that is not clamped to minStep
StepNewUnclamped(step) == RMul(step, control.relaxation)

\* a clamp that forgets the sign of the step
StepNewUnsigned(step) ==
    LET stepNew == RMul(step, control.relaxation)
    IN  IF RLt(RAbs(stepNew), control.minStep) THEN control.minStep ELSE stepNew

\* a bisection that does not shorten the step (the relaxation is not applied)
StepNewNotShortened(step) == step

\* Split the current step into two steps
StepNew(step) ==
    LET stepNew == RMul(step, control.relaxation)
    IN  IF RGt(stepNew, RZero) /\ RLt(stepNew, control.minStep)
        THEN control.minStep
        ELSE IF RLt(stepNew, RZero) /\ RGt(stepNew, RNeg(control.minStep))
             THEN RNeg(control.minStep)
             ELSE stepNew

\* a rest computed from the unclamped first part
StepRestUnclamped(step) == RSub(step, RMul(step, control.relaxation))

StepRest(step) == RSub(step, StepNew(step))

\* the recursive calls
AddTimesChild(f) == Frame(f.step, f.algoIndex, control.testIterTimesMore, f.testTol)
AlterChild(f) == Frame(f.step, f.algoIndex + 1, f.testIterTimes, f.testTol)
LoosenChild(f) == Frame(f.step, 0, control.testIterTimes, control.looseTestTolTo)
\* a first part that keeps the algorithm of the divided invocation
NewChildKeepsAlgorithm(f) == Frame(StepNew(f.step), f.algoIndex, f.testIterTimes, f.testTol)
NewChild(f) == Frame(StepNew(f.step), 0, f.testIterTimes, f.testTol)
RestChild(f) == Frame(f.stepRest, 0, f.testIterTimes, f.testTol)

\* a ladder that goes on to steps b, c, d without looking at step a
PastAddTestTimesSkipped(f) == f.pc \in {"failed", "noadd"}

\* the invocation has reached line 455: step a was not open, or the norm was too large
PastAddTestTimes(f) ==
    \/ f.pc = "failed" /\ ~CanAddTestTimes(f)
    \/ f.pc = "noadd"

Call(pc, child) ==
    /\ Len(stack) < MaxDepth
    /\ stack' = Append([stack EXCEPT ![Len(stack)].pc = pc], child)

\* a step a that adds test times whatever the norm is
AddTestTimesWhateverNorm ==
    /\ stack # <<>> /\ ret = <<>> /\ Top.pc = "failed"
    /\ CanAddTestTimes(Top)
    /\ \E low \in BOOLEAN :
         /\ calls' = Append(calls, NormsCall(low))
         /\ Call("a", AddTimesChild(Top))
    /\ UNCHANGED <<mode, args, control, phase, current, segs, idx, ret, solver, applied>>

\* lines 442-452: read the last norm; add test times if it is small
AddTestTimes ==
    /\ stack # <<>> /\ ret = <<>> /\ Top.pc = "failed"
    /\ CanAddTestTimes(Top)
    /\ \E low \in BOOLEAN :
         /\ calls' = Append(calls, NormsCall(low))
         /\ IF low
            THEN Call("a", AddTimesChild(Top))
            ELSE stack' = [stack EXCEPT ![Len(stack)].pc = "noadd"]
    /\ UNCHANGED <<mode, args, control, phase, current, segs, idx, ret, solver, applied>>

\* lines 455-459: change algorithm
AlterAlgo ==
    /\ stack # <<>> /\ ret = <<>> /\ PastAddTestTimes(Top)
    /\ CanAlterAlgo(Top)
    /\ Call("b", AlterChild(Top))
    /\ UNCHANGED <<mode, args, control, phase, current, segs, idx, ret, solver, calls, applied>>

\* lines 462-471: the step is too small: loose the tolerance, or give up
StepTooSmall ==
    /\ stack # <<>> /\ ret = <<>> /\ PastAddTestTimes(Top)
    /\ ~CanAlterAlgo(Top)
    /\ TooSmall(Top.step)
    /\ IF CanLoosen
       THEN Call("c", LoosenChild(Top)) /\ ret' = ret
       ELSE stack' = Front(stack) /\ ret' = Returned(-1, Top)
    /\ UNCHANGED <<mode, args, control, phase, current, segs, idx, solver, calls, applied>>

\* lines 473-484: divide the step and analyze the first part
Bisect ==
    /\ stack # <<>> /\ ret = <<>> /\ PastAddTestTimes(Top)
    /\ ~CanAlterAlgo(Top)
    /\ ~TooSmall(Top.step)
    /\ Len(stack) < MaxDepth
    /\ stack' = Append([stack EXCEPT ![Len(stack)].pc = "new",
                                     ![Len(stack)].stepRest = StepRest(Top.step)],
                       NewChild(Top))
    /\ UNCHANGED <<mode, args, control, phase, current, segs, idx, ret, solver, calls, applied>>

\* return RecursiveAnalyze(...): the result of the recursive call is the result
TailReturn ==
    /\ stack # <<>> /\ ret # <<>> /\ Top.pc \in {"a", "b", "c"}
    /\ stack' = Front(stack)
    /\ ret' = Returned(ret[1].ok, Top)
    /\ UNCHANGED <<mode, args, control, phase, current, segs, idx, solver, calls, applied>>

\* a bisection that analyzes the rest whatever the first part returned
AfterStepNewGoesOn ==
    /\ stack # <<>> /\ ret # <<>> /\ Top.pc = "new"
    /\ Call("rest", RestChild(Top)) /\ ret' = <<>>
    /\ UNCHANGED <<mode, args, control, phase, current, segs, idx, solver, calls, applied>>

\* lines 485-487: the first part is done; fail, or analyze the rest
AfterStepNew ==
    /\ stack # <<>> /\ ret # <<>> /\ Top.pc = "new"
    /\ IF ret[1].ok < 0
       THEN stack' = Front(stack) /\ ret' = Returned(-1, Top)
       ELSE Call("rest", RestChild(Top)) /\ ret' = <<>>
    /\ UNCHANGED <<mode, args, control, phase, current, segs, idx, solver, calls, applied>>

\* lines 488-490: the rest is done
AfterStepRest ==
    /\ stack # <<>> /\ ret # <<>> /\ Top.pc = "rest"
    /\ stack' = Front(stack)
    /\ ret' = Returned(IF ret[1].ok < 0 THEN -1 ELSE 1, Top)
    /\ UNCHANGED <<mode, args, control, phase, current, segs, idx, solver, calls, applied>>

---------------------------------------------------------------------------
(* The planner of SmartAnalyzeStatic on its own, one leg of the protocol at *)
(* a time (lines 325-350)                                                   *)

PlanInit ==
    /\ mode = "Plan"
    /\ args \in PlanArgs
    /\ control = Update(Defaults("Static", InitialStep(args.maxStep, args.targets)), args.ud)
    /\ NothingDone

PlanLeg ==
    /\ mode = "Plan"
    /\ idx < Len(args.targets)
    /\ idx' = idx + 1
    /\ segs' = segs \o LegSegs(args.targets, args.maxStep, idx + 1)
    /\ UNCHANGED <<mode, args, control, phase, current, stack, ret, solver, calls, applied>>

PlanNext == PlanLeg

PlanSpec == PlanInit /\ [][PlanNext]_vars

---------------------------------------------------------------------------
(* The specification *)

Next ==
    \/ TransientBegin
    \/ StaticBegin
    \/ TransientCall
    \/ StaticCall
    \/ TransientResult
    \/ StaticResult
    \/ TransientFinish
    \/ StaticFinish
    \/ Attempt
    \/ AddTestTimes
    \/ AlterAlgo
    \/ StepTooSmall
    \/ Bisect
    \/ TailReturn
    \/ AfterStepNew
    \/ AfterStepRest

Spec == Init /\ [][Next]_vars

\* The program is sequential and every call into the solver returns: a step
\* that can be taken is taken.
FairSpec == Spec /\ WF_vars(Next)

\* A Transient run against a solver that converges on every attempt:
\* ops.analyze returns 0 each time.
ConvergingInit ==
    /\ mode = "Transient"
    /\ args \in [dt : Lengths, npts : 0..MaxPoints, ud : UserControls]
    /\ control = Update(Defaults("Transient", args.dt), args.ud)
    /\ NothingDone

Converges == Attempt /\ Last(calls').ok

ConvergingNext ==
    \/ TransientBegin
    \/ TransientCall
    \/ Converges
    \/ TransientResult
    \/ TransientFinish

ConvergingSpec == ConvergingInit /\ [][ConvergingNext]_vars

\* One bisection (lines 473-484) of any step, for any relaxation between 0
\* and 1 and any positive minStep: an invocation whose attempt has failed,
\* with the try- flags off.
BisectArgs ==
    [ step       : {Rat(k, 10) : k \in -MaxTenths..MaxTenths},
      relaxation : {Rat(1, 2), Rat(1, 4), Rat(3, 4), Rat(1, 10), Rat(9, 10)},
      minStep    : {Rat(1, 10), Rat(1, 2), RInt(1)} ]

BisectInit ==
    /\ mode = "Static"
    /\ args \in BisectArgs
    /\ control = Update(Defaults("Static", args.step),
                        [relaxation |-> args.relaxation, minStep |-> args.minStep])
    /\ phase = "loop"
    /\ current = [algoIndex |-> 0, testIterTimes |-> control.testIterTimes,
                  testTol |-> control.testTol, step |-> args.step,
                  progress |-> 0, segs |-> 1]
    /\ segs = <<args.step>>
    /\ idx = 1
    /\ applied = RZero
    /\ stack = <<[TopFrame(args.step) EXCEPT !.pc = "failed"]>>
    /\ ret = <<>>
    /\ solver = [algo |-> 40, iter |-> control.testIterTimes, tol |-> control.testTol,
                 incr |-> args.step]
    /\ calls = <<AnalyzeCall(TopFrame(args.step), solver, args.step, FALSE)>>

BisectNext == Bisect

BisectSpec == BisectInit /\ [][BisectNext]_vars

\* the same program started from the inputs of the edges
EdgeSpec == EdgeInit /\ [][Next]_vars

Done == phase \in {"success", "failed"}

DepthOK == Len(stack) < MaxDepth

---------------------------------------------------------------------------
(* Helpers of the properties *)

TwoMinStep == RAdd(control.minStep, control.minStep)

\* |step| < 2*minStep
AtFloor(step) == RLt(RAbs(step), TwoMinStep)

HasAttempt(c) == \E i \in 1..Len(c) : c[i].kind = "analyze"
AttemptOf(c) == c[CHOOSE i \in 1..Len(c) : c[i].kind = "analyze"]

\* the next step is the synchronisation and attempt of the innermost invocation
AtAttempt == stack # <<>> /\ ret = <<>> /\ Top.pc = "start"

LooseDiffers == control.looseTestTolTo # control.testTol

---------------------------------------------------------------------------
(* C1: whenever an invocation of RecursiveAnalyze returns success (0 or 1)  *)
(* for an increment step, the increments the solver converged on during    *)
(* that invocation sum to step.                                            *)

C1_AppliedEqualsStep ==
    (ret # <<>> /\ ret[1].ok >= 0)
        => RSub(applied, ret[1].frame.applied0) = ret[1].frame.step

\* a top-level increment of at least 4 minStep was recovered through bisections
C1_Witness ==
    /\ ret # <<>> /\ stack = <<>>
    /\ ret[1].ok = 1
    /\ RGe(RAbs(ret[1].frame.step), RAdd(TwoMinStep, TwoMinStep))

(* C2: RecursiveAnalyze terminates for any solver behaviour: every         *)
(* sub-increment of a bisection is strictly shorter than the bisected      *)
(* step (and not zero), and the run ends.                                  *)

BisectionShortens ==
    \A i \in 2..Len(stack) :
        stack[i - 1].pc \in {"new", "rest"}
            => /\ RLt(RAbs(stack[i].step), RAbs(stack[i - 1].step))
               /\ stack[i].step # RZero

C2_Terminates == [](BisectionShortens /\ DepthOK) /\ <>Done

\* a run that failed at a step shorter than half its top-level increment
C2_Witness ==
    /\ phase = "failed"
    /\ HasAttempt(calls)
    /\ RLe(RAdd(RAbs(AttemptOf(calls).step), RAbs(AttemptOf(calls).step)),
           RAbs(control.initialStep))

---------------------------------------------------------------------------
(* C3: after a failed attempt the ladder is walked in the order a, b, c, d. *)
(* Between a failed attempt and the next one: the last norm is read exactly *)
(* when step a is open; if it is small the only configuration call is the  *)
(* test with testIterTimesMore and the same step is attempted under the    *)
(* same algorithm; otherwise, if step b is open, the only configuration    *)
(* call selects the next algorithm for the same step; otherwise, at the    *)
(* floor, the same step is attempted from algorithm 0 under the loosened   *)
(* tolerance; otherwise the next attempt is the first part of a bisection. *)

NormsRead(c) == Last(c).kind = "testNorms"
NormLow(c) == NormsRead(c) /\ Last(c).low

StepAOpen(b) ==
    control.tryAddTestTimes /\ b.testIterTimes # control.testIterTimesMore
StepBOpen(b) ==
    control.tryAlterAlgoTypes /\ b.algoIndex + 1 < Len(control.algoTypes)

SameIncrement(b, c) == c.step = b.step /\ c.incr = b.incr

LadderOrder(b, c, cfg, was) ==
    /\ NormsRead(was) <=> StepAOpen(b)
    /\ IF StepAOpen(b) /\ NormLow(was)
       THEN /\ cfg = <<TestCall(b.tol, control.testIterTimesMore)>>
            /\ SameIncrement(b, c)
            /\ c.algo = b.algo /\ c.algoIndex = b.algoIndex
            /\ c.iter = control.testIterTimesMore /\ c.tol = b.tol
       ELSE IF StepBOpen(b)
       THEN /\ cfg = <<AlgorithmCall(b.algoIndex + 1,
                                     control.algoTypes[b.algoIndex + 2])>>
            /\ SameIncrement(b, c)
            /\ c.algoIndex = b.algoIndex + 1
            /\ c.iter = b.iter /\ c.tol = b.tol
       ELSE IF AtFloor(b.step)
       THEN /\ control.tryLooseTestTol /\ b.tol # control.looseTestTolTo
            /\ SameIncrement(b, c)
            /\ c.algoIndex = 0
            /\ c.iter = control.testIterTimes
            /\ c.tol = control.looseTestTolTo
            /\ \A i \in 1..Len(cfg) : cfg[i].kind \in {"setAlgorithm", "test"}
       ELSE /\ RLt(RAbs(c.step), RAbs(b.step))
            /\ c.algoIndex = 0
            /\ c.iter = b.iter /\ c.tol = b.tol
            /\ \A i \in 1..Len(cfg) : cfg[i].kind \in {"setAlgorithm", "integrator"}

C3_EscalationOrder ==
    [][(AtAttempt /\ HasAttempt(calls) /\ ~AttemptOf(calls).ok)
          => LadderOrder(AttemptOf(calls), Last(calls'), Front(calls'), calls)]_vars

\* the attempt with more test iterations has been made while an algorithm
\* switch was open too
C3_Witness ==
    /\ Len(calls) = 2
    /\ calls[1] = TestCall(control.testTol, control.testIterTimesMore)
    /\ calls[2].kind = "analyze"
    /\ control.tryAlterAlgoTypes /\ calls[2].algoIndex + 1 < Len(control.algoTypes)
    /\ control.tryLooseTestTol /\ AtFloor(calls[2].step)

(* C4: RecursiveAnalyze returns a negative value only when the last solver  *)
(* call was a failed attempt of a step shorter than 2*minStep, with no      *)
(* algorithm left to switch to, no growth of the test iterations open (or   *)
(* the norm read too large), and loosening off or the loosened tolerance    *)
(* already in force; a failed run ends in the same way.                     *)

FloorFailure(c) ==
    /\ HasAttempt(c)
    /\ LET b == AttemptOf(c)
       IN  /\ ~b.ok
           /\ AtFloor(b.step)
           /\ ~StepBOpen(b)
           /\ IF StepAOpen(b)
              THEN Last(c) = NormsCall(FALSE) /\ c[Len(c) - 1] = b
              ELSE Last(c) = b
           /\ ~control.tryLooseTestTol \/ b.tol = control.looseTestTolTo

C4_FailedOnlyAtFloor ==
    /\ (ret # <<>> /\ ret[1].ok < 0) => FloorFailure(calls)
    /\ phase = "failed" => FloorFailure(calls)

\* a run failed under the loosened tolerance
C4_Witness ==
    /\ phase = "failed"
    /\ control.tryLooseTestTol /\ LooseDiffers
    /\ AttemptOf(calls).tol = control.looseTestTolTo

(* C5: with the three try- flags off and a solver that has failed every     *)
(* attempt so far, no test, setAlgorithm or testNorms call is issued after  *)
(* the set-up, the test in force stays the initial one, nothing but -1 is   *)
(* returned and only after a failed attempt of a step shorter than          *)
(* 2*minStep, and after that attempt no solver call follows: every step     *)
(* returns from an invocation or reports the failure of the run.            *)

AllFlagsOff ==
    /\ ~control.tryAddTestTimes
    /\ ~control.tryAlterAlgoTypes
    /\ ~control.tryLooseTestTol

\* nothing has converged: the run is in its first segment (which is positive)
AlwaysFailed == phase # "start" /\ idx <= 1 /\ applied = RZero

FailureFloorState ==
    (AllFlagsOff /\ AlwaysFailed) =>
        /\ HasAttempt(calls) =>
              \A i \in 1..Len(calls) : calls[i].kind \in {"analyze", "integrator"}
        /\ solver.tol = control.testTol /\ solver.iter = control.testIterTimes
        /\ ret # <<>> => (ret[1].ok < 0 /\ AtFloor(Last(calls).step))
        /\ phase = "failed" => AtFloor(Last(calls).step)

C5_FailureFloor ==
    [][/\ FailureFloorState'
       /\ (AllFlagsOff /\ AlwaysFailed /\ HasAttempt(calls)
             /\ AtFloor(AttemptOf(calls).step))
            => /\ calls' = calls
               /\ \/ stack # <<>> /\ stack' = Front(stack) /\ ret'[1].ok < 0
                  \/ stack = <<>> /\ phase' = "failed"]_vars

\* a run with the flags off failed in a first segment of at least 4 minStep
C5_Witness ==
    /\ AllFlagsOff /\ AlwaysFailed
    /\ phase = "failed"
    /\ RGe(RAbs(control.initialStep), RAdd(TwoMinStep, TwoMinStep))

(* C6: the orchestrators call RecursiveAnalyze for the planned segments one *)
(* at a time and in order, each from algorithm 0 and the initial test; once *)
(* a top-level call has returned a negative value nothing more is issued    *)
(* and the run reports failure; success is reported only when every         *)
(* planned segment has succeeded.                                           *)

PlannedStep(k) == IF mode = "Transient" THEN control.initialStep ELSE segs[k]
PlannedLength == IF mode = "Transient" THEN args.npts ELSE Len(segs)

TopFailed == stack = <<>> /\ ret # <<>> /\ ret[1].ok < 0

C6_RunInOrderAbortOnFailure ==
    [][/\ phase \notin {"failed", "success"}
       /\ stack' # <<>> =>
             /\ stack'[1].step = PlannedStep(idx')
             /\ stack'[1].algoIndex = 0
             /\ stack'[1].testIterTimes = control.testIterTimes
             /\ stack'[1].testTol = control.testTol
       /\ idx' # idx =>
             /\ idx' = idx + 1
             /\ stack = <<>> /\ ret = <<>>
             /\ current.progress = idx
       /\ TopFailed =>
             /\ phase' = "failed"
             /\ calls' = calls /\ idx' = idx /\ stack' = <<>>
       /\ phase' = "failed" => TopFailed
       /\ phase' = "success" =>
             /\ idx' = PlannedLength
             /\ current'.progress = PlannedLength]_vars

\* a run aborted after a first successful segment, with segments left
C6_Witness ==
    /\ phase = "failed"
    /\ current.progress >= 1
    /\ idx < PlannedLength

(* C7: a synchronisation issues setAlgorithm only if the index differs from *)
(* current['algoIndex'], test only if the iterations or the tolerance       *)
(* differ from the ones in force, integrator only if the step differs from  *)
(* the one in force; an invocation with the parameters of the previous      *)
(* attempt issues no configuration call.                                    *)

SameParameters(b, c) ==
    /\ c.step = b.step /\ c.algoIndex = b.algoIndex
    /\ c.testIterTimes = b.testIterTimes /\ c.testTol = b.testTol

C7_NoRedundantConfiguration ==
    [][AtAttempt =>
         LET cfg == Front(calls')
             c == Last(calls')
         IN  /\ \A i \in 1..Len(cfg) :
                   /\ cfg[i].kind = "setAlgorithm" => cfg[i].index # current.algoIndex
                   /\ cfg[i].kind = "test" =>
                         /\ <<cfg[i].iter, cfg[i].tol>> # <<current.testIterTimes, current.testTol>>
                         /\ <<cfg[i].iter, cfg[i].tol>> # <<solver.iter, solver.tol>>
                   /\ cfg[i].kind = "integrator" =>
                         /\ cfg[i].step # current.step
                         /\ cfg[i].step # solver.incr
             /\ (HasAttempt(calls) /\ SameParameters(AttemptOf(calls), c)) => cfg = <<>>]_vars

\* the second of two identical top-level invocations has converged with no
\* configuration call (a floor-level dt with the flags off is never divided)
C7_Witness ==
    /\ mode = "Transient" /\ AllFlagsOff
    /\ control.initialStep = control.minStep
    /\ idx = 2 /\ stack = <<>>
    /\ ret # <<>> /\ ret[1].ok = 0
    /\ Len(calls) = 1

(* C8: the static planner, leg by leg: the segments planned so far sum to   *)
(* the target of the last leg taken, every segment of the leg is at most    *)
(* maxStep in magnitude and has the sign of the leg, and the protocol of    *)
(* the README with maxStep 0.5 gives 16 segments.                           *)

LegPlanned(targets, maxStep, i, old, new) ==
    LET section == IF i = 1 THEN targets[1] ELSE RSub(targets[i], targets[i - 1])
        leg == SubSeq(new, Len(old) + 1, Len(new))
    IN  /\ SubSeq(new, 1, Len(old)) = old
        /\ RSum(new) = targets[i]
        /\ \A k \in 1..Len(leg) :
              /\ RLe(RAbs(leg[k]), maxStep)
              /\ RGt(section, RZero) => RGt(leg[k], RZero)
              /\ RLt(section, RZero) => RLt(leg[k], RZero)
        /\ (targets = ReadmeProtocol /\ maxStep = Rat(1, 2) /\ i = Len(targets))
              => Len(new) = 16

C8_StaticPlanner ==
    [][LegPlanned(args.targets, args.maxStep, idx', segs, segs')]_vars

\* the protocol of the README has been planned
C8_Witness ==
    /\ mode = "Plan"
    /\ args.targets = ReadmeProtocol /\ args.maxStep = Rat(1, 2)
    /\ idx = Len(args.targets)
    /\ Len(segs) = 16

(* C9 as claimed: once the loosened tolerance is in force on the solver it  *)
(* stays in force for the rest of the run.                                  *)

LoosenedInForce ==
    phase # "start" /\ LooseDiffers /\ solver.tol = control.looseTestTolTo

C9_LooseningSticky ==
    [][LoosenedInForce => solver'.tol = control.looseTestTolTo]_vars

(* C9 amended: loosening is not sticky.  Every attempt is made under the    *)
(* testTol of the invocation making it; the loosened tolerance is in force  *)
(* only for an attempt that follows a failed attempt of the same step, a    *)
(* step shorter than 2*minStep; an attempt that follows a converged attempt *)
(* or is for another step is made after a test call has set the tolerance   *)
(* back to the initial testTol.                                             *)

C9_LooseningNotSticky ==
    [][AtAttempt =>
         LET c == Last(calls')
             cfg == Front(calls')
         IN  /\ c.tol = c.testTol
             /\ c.tol \in {control.testTol, control.looseTestTolTo}
             /\ (LooseDiffers /\ c.tol = control.looseTestTolTo) =>
                   /\ control.tryLooseTestTol
                   /\ AtFloor(c.step)
                   /\ HasAttempt(calls)
                   /\ ~AttemptOf(calls).ok
                   /\ AttemptOf(calls).step = c.step
             /\ (LoosenedInForce /\ (AttemptOf(calls).ok \/ AttemptOf(calls).step # c.step)) =>
                   /\ c.tol = control.testTol
                   /\ \E i \in 1..Len(cfg) : cfg[i] = TestCall(control.testTol, c.iter)]_vars

\* the tolerance has been set back: with tryAddTestTimes off the iterations
\* never change, so a test call of a synchronisation changes the tolerance
C9_Witness ==
    /\ LooseDiffers /\ ~control.tryAddTestTimes
    /\ HasAttempt(calls)
    /\ \E i \in 1..Len(calls) : calls[i] = TestCall(control.testTol, control.testIterTimes)

(* C10 as claimed: the first attempt of each part of a bisection, and of    *)
(* the loosening recursion, is made with algorithm 0 and the initial        *)
(* testIterTimes.                                                           *)

Caller == stack[Len(stack) - 1]

C10_LadderFromTheTop ==
    [][(AtAttempt /\ Len(stack) >= 2 /\ Caller.pc \in {"new", "rest", "c"}) =>
          /\ Last(calls').algoIndex = 0
          /\ Last(calls').iter = control.testIterTimes]_vars

(* C10 amended: the parts of a bisection are first attempted with algorithm *)
(* 0 and with the testIterTimes and testTol of the divided invocation       *)
(* (testIterTimesMore when it was reached through step a); the loosening    *)
(* recursion is first attempted with algorithm 0, the initial testIterTimes *)
(* and looseTestTolTo.                                                      *)

C10_ChildrenOfBisectionAndLoosening ==
    [][(AtAttempt /\ Len(stack) >= 2) =>
          LET c == Last(calls')
          IN  /\ Caller.pc \in {"new", "rest"} =>
                    /\ c.algoIndex = 0
                    /\ c.iter = Caller.testIterTimes
                    /\ c.tol = Caller.testTol
              /\ Caller.pc = "c" =>
                    /\ c.algoIndex = 0
                    /\ c.iter = control.testIterTimes
                    /\ c.tol = control.looseTestTolTo]_vars

\* the first part of a bisection has been attempted, and failed, with
\* testIterTimesMore, the divided invocation running algorithm 1
C10_Witness ==
    /\ Len(stack) >= 2
    /\ Caller.pc = "new" /\ Caller.algoIndex = 1
    /\ Top.pc = "failed"
    /\ Last(calls).kind = "analyze"
    /\ Last(calls).algoIndex = 0
    /\ Last(calls).iter = control.testIterTimesMore
    /\ control.testIterTimesMore # control.testIterTimes

---------------------------------------------------------------------------
(* C11 as claimed: a Transient run makes its top-level calls with step dt,  *)
(* whatever the user control holds, and a successful run has advanced the   *)
(* solver by npts*dt.                                                       *)

C11_TransientStepsOfDt ==
    mode = "Transient" =>
        /\ stack # <<>> => stack[1].step = args.dt
        /\ phase = "success" => applied = RMul(RInt(args.npts), args.dt)

---------------------------------------------------------------------------
(* C12: on a Transient run whose attempts all converge, the set-up is one   *)
(* test call and one setAlgorithm call; after it what is in force on the    *)
(* solver never changes and every solver call is an analyze call, made by a *)
(* top-level invocation that returns at once, one per loop iteration; the   *)
(* run reports success after npts of them (the solver has advanced by npts  *)
(* increments).                                                             *)

SetUpCalls ==
    <<TestCall(control.testTol, control.testIterTimes),
      AlgorithmCall(0, control.algoTypes[1])>>

C12_ConvergingRun ==
    [][/\ phase = "start" => calls' = SetUpCalls
       /\ phase # "start" =>
             /\ solver' = solver
             /\ calls' # calls =>
                   /\ Len(calls') = 1
                   /\ calls'[1].kind = "analyze" /\ calls'[1].ok
       /\ applied' # applied =>
             /\ stack = <<TopFrame(control.initialStep)>> /\ stack' = <<>>
             /\ calls' = <<AnalyzeCall(Top, solver, control.initialStep, TRUE)>>
             /\ applied' = RMul(RInt(idx), control.initialStep)
       /\ stack' # <<>> => (stack = <<>> /\ Len(stack') = 1 /\ idx' = idx + 1)
       /\ phase' = "success" =>
             /\ idx = args.npts
             /\ applied = RMul(RInt(args.npts), control.initialStep)
             /\ args.npts > 0 => Len(calls) = 1]_vars

\* a run of 5 points has succeeded
C12_Witness ==
    /\ phase = "success"
    /\ args.npts = 5
    /\ applied = RMul(RInt(5), args.dt)
    /\ Len(calls) = 1 /\ calls[1].kind = "analyze"

---------------------------------------------------------------------------
(* C13 as claimed: a leg of length zero plans nothing: no segment of size 0 *)
(* is planned or passed to RecursiveAnalyze, and current['segs'] counts the *)
(* segments of the other legs only.                                         *)

C13_ZeroLegPlansNothing ==
    (mode = "Static" /\ phase = "loop") =>
        /\ \A k \in 1..Len(segs) : segs[k] # RZero
        /\ stack # <<>> => stack[1].step # RZero
        /\ current.segs = Cardinality({k \in 1..Len(segs) : segs[k] # RZero})

---------------------------------------------------------------------------
(* C14 as claimed: a Static run with maxStep <= 0 issues no solver call     *)
(* (nothing is in force on the solver, no call is recorded) and the entry   *)
(* point is left with an error.                                             *)

NoSolverCall ==
    /\ calls = <<>>
    /\ solver = [algo |-> -1, iter |-> 0, tol |-> 0, incr |-> RZero]
    /\ applied = RZero

C14_NonPositiveMaxStepRejected ==
    (mode = "Static" /\ RLe(args.maxStep, RZero)) =>
        /\ NoSolverCall
        /\ phase \in {"start", "error"}

---------------------------------------------------------------------------
(* C15 as claimed: a Static run with no targets issues no attempt and       *)
(* reports success: the entry point is never left with an error.            *)

C15_NoTargetsSucceeds ==
    (mode = "Static" /\ args.targets = <<>>) =>
        /\ phase \notin {"error", "failed"}
        /\ ~HasAttempt(calls)

---------------------------------------------------------------------------
(* C16 as claimed: with a malformed control (no algorithm type, a minStep   *)
(* that is not positive, a relaxation that is not strictly between 0 and 1) *)
(* no solver call is issued and the run is not started.                     *)

MalformedControl ==
    /\ control # NoUd
    /\ \/ control.algoTypes = <<>>
       \/ RLe(control.minStep, RZero)
       \/ RLe(control.relaxation, RZero)
       \/ RGe(control.relaxation, RInt(1))

C16_MalformedControlRefused ==
    MalformedControl =>
        /\ NoSolverCall
        /\ phase \in {"start", "error"}
        /\ stack = <<>> /\ idx = 0

---------------------------------------------------------------------------
(* C17 as claimed: once setAlgorithm has been given a code that is not in   *)
(* its table (at the set-up or at a switch of step b) no attempt is made.   *)

\* the code last given to setAlgorithm is not in the table
UnknownAlgorithmGiven ==
    /\ control # NoUd /\ control.algoTypes # <<>>
    /\ phase # "start"
    /\ control.algoTypes[current.algoIndex + 1] \notin AlgorithmCatalog

C17_UnknownAlgorithmFatal ==
    UnknownAlgorithmGiven => ~HasAttempt(calls)

---------------------------------------------------------------------------
(* C18 as claimed: the number of invocations nested below a top-level       *)
(* invocation of step s never exceeds                                       *)
(* ceil(log(|s|/minStep) / log(1/relaxation)), which is the least k with    *)
(* |s| * relaxation^k <= minStep.                                           *)

RECURSIVE RPow(_, _)
RPow(a, k) == IF k = 0 THEN RInt(1) ELSE RMul(a, RPow(a, k - 1))

RECURSIVE LogBound(_, _)
LogBound(step, k) ==
    IF RLe(RMul(RAbs(step), RPow(control.relaxation, k)), control.minStep)
    THEN k
    ELSE LogBound(step, k + 1)

C18_DepthWithinLogBound ==
    stack # <<>> => Len(stack) - 1 <= LogBound(stack[1].step, 0)

(* C18 amended: what the logarithm bounds is the number of nested           *)
(* bisections, with the larger of relaxation and 1 - relaxation as the      *)
(* ratio and 2*minStep as the floor: an invocation that has divided its     *)
(* step has a step of at least 2*minStep and of at most                     *)
(* |s| * max(relaxation, 1 - relaxation)^k, k being the number of dividing  *)
(* invocations it is nested in.  Steps a, b and c nest one invocation more  *)
(* each: below and including each dividing invocation there are at most     *)
(* 1 + (1 if tryAddTestTimes) + (len(algoTypes) - 1 if tryAlterAlgoTypes)   *)
(* invocations of the same step, and twice as many for the last step when   *)
(* tryLooseTestTol is set.                                                  *)

Divides(i) == stack[i].pc \in {"new", "rest"}
Bisections(i) == Cardinality({k \in 1..i : Divides(k)})

Shrink ==
    IF RGt(control.relaxation, RSub(RInt(1), control.relaxation))
    THEN control.relaxation
    ELSE RSub(RInt(1), control.relaxation)

RungsPerStep ==
    1 + (IF control.tryAddTestTimes THEN 1 ELSE 0)
      + (IF control.tryAlterAlgoTypes THEN Len(control.algoTypes) - 1 ELSE 0)

C18_NestedBisections ==
    /\ \A i \in 1..Len(stack) :
          Divides(i) =>
             /\ RGe(RAbs(stack[i].step), TwoMinStep)
             /\ RLe(RAbs(stack[i].step),
                    RMul(RAbs(stack[1].step), RPow(Shrink, Bisections(i - 1))))
    /\ Len(stack) <= (Bisections(Len(stack))
                         + (IF control.tryLooseTestTol THEN 2 ELSE 1)) * RungsPerStep

\* three nested bisections of a step of 4 minStep with relaxation 1/4, where
\* the claimed bound is 1
C18_Witness ==
    /\ stack # <<>>
    /\ Bisections(Len(stack)) = 3
    /\ LogBound(stack[1].step, 0) = 1

---------------------------------------------------------------------------
(* C19 as claimed: with no user control tryAddTestTimes and tryLooseTestTol *)
(* are set and tryAlterAlgoTypes is not: after a failed attempt the last    *)
(* norm is read (and, when it is small, the step is attempted again with    *)
(* testIterTimesMore), and a run reports failure only after an attempt      *)
(* under the tolerance looseTestTolTo.                                      *)

AttemptFailed == stack # <<>> /\ ret = <<>> /\ Top.pc = "failed"

C19_DefaultsTryHarder ==
    [][args.ud = NoUd =>
          /\ (AttemptFailed /\ Top.testIterTimes = control.testIterTimes)
                => Last(calls').kind = "testNorms"
          /\ phase' = "failed" => AttemptOf(calls).tol = control.looseTestTolTo]_vars

---------------------------------------------------------------------------
(* C20: a bisection preserves the sign: when a step of at least 2*minStep   *)
(* is divided, stepNew and stepRest are not zero and have the sign of the   *)
(* step, stepNew is at least minStep in magnitude and stepNew + stepRest is *)
(* the step; step -0.8 with relaxation 0.5 and minStep 0.1 gives -0.4 and   *)
(* -0.4.                                                                    *)

SameSign(a, b) == (a.n > 0 /\ b.n > 0) \/ (a.n < 0 /\ b.n < 0)

SignPreserved(step, stepNew, stepRest) ==
    /\ RGe(RAbs(step), TwoMinStep)
    /\ stepNew # RZero /\ stepRest # RZero
    /\ SameSign(stepNew, step) /\ SameSign(stepRest, step)
    /\ RGe(RAbs(stepNew), control.minStep)
    /\ RAdd(stepNew, stepRest) = step
    /\ (step = Rat(-8, 10) /\ control.relaxation = Rat(1, 2)
          /\ control.minStep = Rat(1, 10))
         => (stepNew = Rat(-4, 10) /\ stepRest = Rat(-4, 10))

C20_BisectionPreservesSign ==
    \A i \in 1..(Len(stack) - 1) :
        stack[i].pc = "new" =>
            SignPreserved(stack[i].step, stack[i + 1].step, stack[i].stepRest)

\* the step -0.8 has been divided
C20_Witness ==
    /\ Len(stack) = 2
    /\ stack[1].pc = "new" /\ stack[1].step = Rat(-8, 10)
    /\ control.relaxation = Rat(1, 2) /\ control.minStep = Rat(1, 10)
    /\ stack[2].step = Rat(-4, 10)

---------------------------------------------------------------------------
(* C21: in a bisection the first part is resolved before the rest is        *)
(* touched.  When the call for stepNew returns a negative value the         *)
(* dividing invocation returns -1 at once and nothing is issued for         *)
(* stepRest; otherwise the solver has advanced by stepNew, the rest is      *)
(* called next, and its result decides: -1 if negative, 1 if not.           *)

ReturnsTo(pc) == stack # <<>> /\ ret # <<>> /\ Top.pc = pc

C21_FirstPartThenRest ==
    [][/\ (ReturnsTo("new") /\ ret[1].ok < 0) =>
             /\ stack' = Front(stack)
             /\ ret' # <<>> /\ ret'[1].ok = -1
             /\ calls' = calls /\ solver' = solver /\ applied' = applied
       /\ (ReturnsTo("new") /\ ret[1].ok >= 0) =>
             /\ RSub(applied, Top.applied0) = RSub(Top.step, Top.stepRest)
             /\ Len(stack') = Len(stack) + 1
             /\ Last(stack').step = Top.stepRest /\ Last(stack').pc = "start"
             /\ ret' = <<>>
             /\ calls' = calls
       /\ ReturnsTo("rest") =>
             /\ stack' = Front(stack)
             /\ ret' # <<>>
             /\ ret'[1].ok = IF ret[1].ok < 0 THEN -1 ELSE 1
       /\ \A i \in 1..(Len(stack') - 1) :
             stack'[i].pc = "rest" =>
                RSub(stack'[i + 1].applied0, stack'[i].applied0)
                    = RSub(stack'[i].step, stack'[i].stepRest)]_vars

\* a bisection has returned -1 because its first part failed, after an
\* earlier part of the same increment had converged
C21_Witness ==
    /\ ret # <<>> /\ ret[1].ok = -1
    /\ ret[1].frame.pc = "new"
    /\ stack # <<>> /\ Top.pc = "rest"

---------------------------------------------------------------------------
(* C22: step a is gated by the norm.  After a failed attempt the last norm  *)
(* is read exactly when tryAddTestTimes is set and the invocation's         *)
(* testIterTimes is not testIterTimesMore.  Only when it is read and small  *)
(* is the same step called again with testIterTimesMore (same algorithm,    *)
(* same tolerance); otherwise the invocation goes on to step b, c or d or   *)
(* returns -1, and no test call with testIterTimesMore is issued before the *)
(* next attempt.                                                            *)

FallsThrough ==
    \/ /\ Len(stack') = Len(stack) + 1
       /\ stack'[Len(stack)].pc \in {"b", "c", "new"}
    \/ /\ stack' = Front(stack)
       /\ ret' # <<>> /\ ret'[1].ok = -1

C22_GrowthGatedByNorm ==
    [][/\ AttemptFailed =>
             IF StepAOpen(Top)
             THEN \/ /\ calls' = Append(calls, NormsCall(TRUE))
                     /\ Len(stack') = Len(stack) + 1
                     /\ stack'[Len(stack)].pc = "a"
                     /\ Last(stack').testIterTimes = control.testIterTimesMore
                     /\ Last(stack').step = Top.step
                     /\ Last(stack').algoIndex = Top.algoIndex
                     /\ Last(stack').testTol = Top.testTol
                  \/ /\ calls' = Append(calls, NormsCall(FALSE))
                     /\ stack' = [stack EXCEPT ![Len(stack)].pc = "noadd"]
             ELSE calls' = calls /\ FallsThrough
       /\ (stack # <<>> /\ ret = <<>> /\ Top.pc = "noadd") =>
             (calls' = calls /\ FallsThrough)
       /\ (AtAttempt /\ HasAttempt(calls) /\ ~AttemptOf(calls).ok /\ ~NormLow(calls)) =>
             /\ \A i \in 1..(Len(calls') - 1) :
                   calls'[i].kind = "test" => calls'[i].iter # control.testIterTimesMore
             /\ Last(calls').iter = control.testIterTimesMore
                   => AttemptOf(calls).iter = control.testIterTimesMore]_vars

\* the norm was read and found too large, and the next algorithm is being
\* tried with the initial testIterTimes
C22_Witness ==
    /\ Len(stack) >= 2 /\ Caller.pc = "b"
    /\ Last(calls) = NormsCall(FALSE)
    /\ Top.pc = "start" /\ Top.testIterTimes = control.testIterTimes

---------------------------------------------------------------------------
(* C23 as claimed: at every attempt of a run whose algorithm types are all  *)
(* in the table of setAlgorithm, what is in force on the solver (algorithm, *)
(* test, and in Static runs the integrator's signed step) is what the       *)
(* current dict records and what the invocation making the attempt was      *)
(* called with, and the algorithm index is an index of algoTypes.           *)

KnownAlgorithms ==
    /\ control # NoUd
    /\ \A i \in 1..Len(control.algoTypes) : control.algoTypes[i] \in AlgorithmCatalog

\* the last solver call is an attempt: nothing has changed since it was made
JustAttempted == calls # <<>> /\ Last(calls).kind = "analyze"

TestInForce(c) ==
    /\ c.iter = c.testIterTimes /\ c.iter = current.testIterTimes
    /\ c.tol = c.testTol /\ c.tol = current.testTol
    /\ solver.iter = c.iter /\ solver.tol = c.tol

StepInForce(c) ==
    control.analysis = "Static" =>
        (c.incr = c.step /\ current.step = c.step /\ solver.incr = c.step)

AlgorithmInForce(c) ==
    /\ c.algoIndex + 1 \in 1..Len(control.algoTypes)
    /\ current.algoIndex = c.algoIndex
    /\ c.algo = control.algoTypes[c.algoIndex + 1]
    /\ solver.algo = c.algo

C23_ShadowState ==
    (KnownAlgorithms /\ JustAttempted) =>
        /\ TestInForce(Last(calls))
        /\ StepInForce(Last(calls))
        /\ AlgorithmInForce(Last(calls))

---------------------------------------------------------------------------
(* C24 as claimed: when the top-level step is at least minStep in           *)
(* magnitude, every increment attempted is at least minStep in magnitude.   *)

TopLevelAtLeastMinStep ==
    stack # <<>> /\ RGe(RAbs(stack[1].step), control.minStep)

RestFloor ==
    IF RLe(control.relaxation, Rat(1, 2))
    THEN control.minStep
    ELSE RMul(RMul(RInt(2), RSub(RInt(1), control.relaxation)), control.minStep)

---------------------------------------------------------------------------
(* C25: when testTol # looseTestTolTo, the loosened tolerance is a last     *)
(* resort of the step floor.  Every attempt made while the tolerance of the *)
(* solver is looseTestTolTo is for a step with |step| < 2*minStep; an       *)
(* invocation under the loosened tolerance never divides its step and never *)
(* looses again: it only calls the rungs a and b for the same step, and its *)
(* failure at the floor returns -1; so at most one loosening recursion is   *)
(* open at a time, entered from an invocation under the initial testTol.    *)

Loosened(f) == f.testTol = control.looseTestTolTo

LoosenedFrames == {i \in 1..Len(stack) : Loosened(stack[i])}

LooseningCalls == {i \in 1..Len(stack) : stack[i].pc = "c"}

C25_LoosenedOnlyAtFloor ==
    [][LooseDiffers =>
          /\ AtAttempt =>
                (solver'.tol = control.looseTestTolTo =>
                    /\ AtFloor(Last(calls').step)
                    /\ Loosened(Top))
          /\ \A i \in LoosenedFrames :
                /\ AtFloor(stack[i].step)
                /\ stack[i].pc \notin {"new", "rest", "c"}
                /\ i > 1 /\ stack[i - 1].pc \in {"a", "b", "c"}
                /\ stack[i - 1].step = stack[i].step
          /\ \A i \in LooseningCalls :
                /\ ~Loosened(stack[i])
                /\ i < Len(stack) \/ ret # <<>>
                /\ \A j \in (i + 1)..Len(stack) : Loosened(stack[j])
          /\ Cardinality(LooseningCalls) <= 1
          /\ (stack # <<>> /\ ret = <<>> /\ Loosened(Top) /\ PastAddTestTimes(Top)
                 /\ ~CanAlterAlgo(Top)) =>
                (stack' = Front(stack) /\ ret' # <<>> /\ ret'[1].ok = -1)]_vars

\* the loosening recursion has failed at the floor, after its rungs a and b
C25_Witness ==
    /\ LooseDiffers
    /\ ret # <<>> /\ ret[1].ok = -1 /\ Loosened(ret[1].frame)
    /\ Len(stack) >= 3 /\ LooseningCalls # {}
    /\ \E i \in LoosenedFrames : stack[i].pc = "b"

===========================================================================
